---- MODULE Spec2Model ----
(***************************************************************************)
(* A model of the red-black tree library in rb_tree.c / rb_tree.h.         *)
(*                                                                         *)
(* The heap is a function from node addresses to node records; the         *)
(* public operations are actions that run the whole C function, fix-up     *)
(* included.  A read through a null pointer is a fault: the call never     *)
(* returns and the process takes no further step.                          *)
(***************************************************************************)
EXTENDS Integers, Sequences, FiniteSets, TLC

\* ---------------------------------------------------------------- bounds
MaxKey == 4           \* keys of Spec
MaxMapKey == 3        \* keys of SpecMap
MaxVal == 2           \* values (resources) the caller passes
MaxShapeKey == 6      \* keys of SpecShape
MaxRoundTripKey == 7  \* keys of SpecRoundTrip
MaxDiagKey == 3       \* keys of SpecDiag
MaxInsertKey == 9     \* keys of SpecInsert
MaxFixupKey == 11     \* keys of SpecFixup
MaxWidthKey == 3      \* keys of SpecWidth
MaxKeyWidth == 8      \* largest key width in bytes given to rbTree_Create

Max(a, b) == IF a >= b THEN a ELSE b

Keys          == 1..MaxKey
MapKeys       == 1..MaxMapKey
ShapeKeys     == 1..MaxShapeKey
RoundTripKeys == 1..MaxRoundTripKey
DiagKeys      == 1..MaxDiagKey
InsertKeys    == 1..MaxInsertKey
FixupKeys     == 1..MaxFixupKey
WidthKeys     == 1..MaxWidthKey
KeyWidths     == 1..MaxKeyWidth
Values        == 1..MaxVal
NodeIds       == 1..Max(Max(Max(MaxKey, MaxMapKey), Max(MaxShapeKey, MaxRoundTripKey)),
                        Max(Max(MaxDiagKey, MaxWidthKey), Max(MaxInsertKey, MaxFixupKey)))

\* the keys of the worked example of the specification
ScenarioKeys  == {10, 20, 30}
AllKeys       == NodeIds \cup ScenarioKeys

\* ------------------------------------------------------------- constants
RB_TREE_NULL_PTR == 0
NO_ERROR == 0
RBTREE_ERRNO_OUT_OF_MEM == 1
RBTREE_ERRNO_DUP_VAL == 2
RBTREE_ERRNO_ARG_ERR == 3
RBTREE_ERRNO_NODE_INEXIT == 4

RB_RED   == "RED"
RB_BLACK == "BLACK"

Nil == RB_TREE_NULL_PTR

\* sizeof(unsigned int) of the build, in bytes: the size of an int key too
SizeofUnsignedInt == 4

\* the address rbTree_Create returned, and the address of the user's cleanup function
ManagerAddr == 1
CleanupFn == 1

VARIABLES
  manager,                \* the caller's rbTreeManager_t* handle (ManagerAddr or Nil)
  managerAllocated,       \* the manager block is still malloc'ed
  root,                   \* rbTreeManager->root
  node,                   \* heap: address -> rbTreeNode_t
  alloc,                  \* addresses of the malloc'ed nodes
  errorCode,              \* rbTreeManager->errorCode
  rbTree_FreeRuleHandle,  \* rbTreeManager->rbTree_FreeRuleHandle (Nil or CleanupFn)
  index_typde_size,       \* rbTreeManager->index_typde_size: the key width in bytes
  rbTree_buffer,          \* the size in bytes of the block rbTreeManager->rbTree_buffer
  call,                   \* the last call: operation, return value, and whether
                          \* it exchanged the payloads of two nodes
  cleanupLog,             \* values passed to the cleanup callback by the last call
  ref,                    \* reference map: key -> value (Nil when absent)
  outstanding,            \* value -> number of inserted, not yet cleaned up
  spurious,               \* cleanup was called on a value that was not outstanding
  fault                   \* a null pointer was dereferenced

vars == <<manager, managerAllocated, root, node, alloc, errorCode,
          rbTree_FreeRuleHandle, index_typde_size, rbTree_buffer, call,
          cleanupLog, ref, outstanding, spurious, fault>>

\* a user comparator over integer keys; only its sign is used by the code
rbTree_MatchRuleHandle(reference_node, rbTree_node) == reference_node - rbTree_node

\* the content of memory that is not an allocated node
FreeNode == [index |-> 0, resource |-> Nil, left |-> Nil, right |-> Nil,
             parent |-> Nil, color |-> "FREE"]

\* what the delete fix-up did: the case that ended it, the keys of the parent
\* P, of the sibling S, of the RED child of S and of P's parent G (0: none) at
\* the moment the case was entered, P's colour then, and the number of levels
\* the fix-up had climbed
NoFix == [case |-> "none", p |-> 0, s |-> 0, c |-> 0, g |-> 0, pcolor |-> "NONE",
          ascents |-> 0]

\* the memory a call works on
Mem == [root |-> root, nd |-> node, alloc |-> alloc, errorCode |-> errorCode,
        freed |-> <<>>, fault |-> FALSE, ret |-> 0, exchanged |-> FALSE,
        fix |-> NoFix, trail |-> <<>>, overrun |-> FALSE]

Fault(m) == [m EXCEPT !.fault = TRUE]

\* the number of parent links between node n and the root
RECURSIVE Depth(_, _)
Depth(m, n) == IF m.nd[n].parent = Nil THEN 0 ELSE 1 + Depth(m, m.nd[n].parent)

\* one more pass of a fix-up loop, examining node n: its depth joins the trail
Visit(m, n) == [m EXCEPT !.trail = Append(@, Depth(m, n))]

\* ------------------------------------------------------ private functions
rbTreePrivate_CreateNewNode(m, addr, index, resource) ==
  [m EXCEPT !.alloc = @ \cup {addr},
            !.nd[addr] = [index |-> index, resource |-> resource, left |-> Nil,
                          right |-> Nil, parent |-> Nil, color |-> RB_RED]]

rbTreePrivate_FreeNodeMem(m, n) ==
  LET m1 == IF rbTree_FreeRuleHandle # Nil
              THEN [m EXCEPT !.freed = Append(@, m.nd[n].resource)]
              ELSE m
  IN  [m1 EXCEPT !.alloc = @ \ {n}, !.nd[n] = FreeNode]

\* mutant: the descent turns the other way
RECURSIVE SearchFromMirrored(_, _, _)
SearchFromMirrored(m, probe, index) ==
  IF probe = Nil THEN Nil
  ELSE LET match_ret == rbTree_MatchRuleHandle(index, m.nd[probe].index) IN
       IF match_ret = 0 THEN probe
       ELSE IF match_ret > 0 THEN SearchFromMirrored(m, m.nd[probe].right, index)
       ELSE SearchFromMirrored(m, m.nd[probe].left, index)

\* the loop of rbTreePrivate_Search
RECURSIVE SearchFrom(_, _, _)
SearchFrom(m, probe, index) ==
  IF probe = Nil THEN Nil
  ELSE LET match_ret == rbTree_MatchRuleHandle(index, m.nd[probe].index) IN
       IF match_ret = 0 THEN probe
       ELSE IF match_ret > 0 THEN SearchFrom(m, m.nd[probe].left, index)
       ELSE SearchFrom(m, m.nd[probe].right, index)

\* mutant: a miss returns the root instead of the null pointer
SearchOrRoot(m, index) ==
  IF SearchFrom(m, m.root, index) = Nil THEN m.root ELSE SearchFrom(m, m.root, index)

rbTreePrivate_Search(m, index) == SearchFrom(m, m.root, index)

\* mutant: the indexes are exchanged, the resources are not
ExchangeIndexOnly(m, n1, n2) ==
  IF n1 = Nil \/ n2 = Nil THEN m
  ELSE [m EXCEPT !.nd[n1].index = m.nd[n2].index,
                 !.nd[n2].index = m.nd[n1].index,
                 !.exchanged = TRUE]

\* the first memcpy writes index_typde_size bytes into rbTree_buffer: past
\* its end when the block is smaller
rbTreePrivate_ExchangeTwoNode(m, n1, n2) ==
  IF n1 = Nil \/ n2 = Nil THEN m
  ELSE [m EXCEPT !.nd[n1].index = m.nd[n2].index,
                 !.nd[n2].index = m.nd[n1].index,
                 !.nd[n1].resource = m.nd[n2].resource,
                 !.nd[n2].resource = m.nd[n1].resource,
                 !.exchanged = TRUE,
                 !.overrun = (index_typde_size > rbTree_buffer)]

\* mutant: the subtree handed over keeps its old parent link
LeftRotateStaleParent(m, target_node) ==
  IF m.fault THEN m
  ELSE IF target_node = Nil THEN Fault(m)
  ELSE IF m.nd[target_node].right = Nil THEN Fault(m)
  ELSE
    LET new_node == m.nd[target_node].right
        nl == m.nd[new_node].left
        p  == m.nd[target_node].parent
        m1 == [m EXCEPT !.nd[target_node].right = nl]
        m3 == [m1 EXCEPT !.nd[new_node].parent = p]
        m4 == IF p = Nil THEN [m3 EXCEPT !.root = new_node]
              ELSE IF target_node = m3.nd[p].left
                THEN [m3 EXCEPT !.nd[p].left = new_node]
                ELSE [m3 EXCEPT !.nd[p].right = new_node]
    IN  [m4 EXCEPT !.nd[target_node].parent = new_node,
                   !.nd[new_node].left = target_node]

rbTreePrivate_LeftRotate(m, target_node) ==
  IF m.fault THEN m
  ELSE IF target_node = Nil THEN Fault(m)
  ELSE IF m.nd[target_node].right = Nil THEN Fault(m)
  ELSE
    LET new_node == m.nd[target_node].right
        nl == m.nd[new_node].left
        p  == m.nd[target_node].parent
        m1 == [m EXCEPT !.nd[target_node].right = nl]
        m2 == IF nl # Nil THEN [m1 EXCEPT !.nd[nl].parent = target_node] ELSE m1
        m3 == [m2 EXCEPT !.nd[new_node].parent = p]
        m4 == IF p = Nil THEN [m3 EXCEPT !.root = new_node]
              ELSE IF target_node = m3.nd[p].left
                THEN [m3 EXCEPT !.nd[p].left = new_node]
                ELSE [m3 EXCEPT !.nd[p].right = new_node]
    IN  [m4 EXCEPT !.nd[target_node].parent = new_node,
                   !.nd[new_node].left = target_node]

rbTreePrivate_RightRotate(m, target_node) ==
  IF m.fault THEN m
  ELSE IF target_node = Nil THEN Fault(m)
  ELSE IF m.nd[target_node].left = Nil THEN Fault(m)
  ELSE
    LET new_node == m.nd[target_node].left
        nr == m.nd[new_node].right
        p  == m.nd[target_node].parent
        m1 == [m EXCEPT !.nd[target_node].left = nr]
        m2 == IF nr # Nil THEN [m1 EXCEPT !.nd[nr].parent = target_node] ELSE m1
        m3 == [m2 EXCEPT !.nd[new_node].parent = p]
        m4 == IF p = Nil THEN [m3 EXCEPT !.root = new_node]
              ELSE IF target_node = m3.nd[p].right
                THEN [m3 EXCEPT !.nd[p].right = new_node]
                ELSE [m3 EXCEPT !.nd[p].left = new_node]
    IN  [m4 EXCEPT !.nd[new_node].right = target_node,
                   !.nd[target_node].parent = new_node]

\* mutant: the grandparent keeps its colour
InsertRecolourParentOnly(m, new_node) ==
  IF m.fault THEN m
  ELSE LET p == m.nd[new_node].parent IN
    IF p = Nil THEN Fault(m) ELSE [m EXCEPT !.nd[p].color = RB_BLACK]

\* the tail of both branches of the black-uncle case: recolour parent and
\* grandparent of new_node, then rotate the grandparent
InsertRecolour(m, new_node) ==
  IF m.fault THEN m
  ELSE LET p == m.nd[new_node].parent IN
    IF p = Nil THEN Fault(m)
    ELSE LET g == m.nd[p].parent IN
      IF g = Nil THEN Fault([m EXCEPT !.nd[p].color = RB_BLACK])
      ELSE [m EXCEPT !.nd[p].color = RB_BLACK, !.nd[g].color = RB_RED]

\* mutant: the root is not forced BLACK after the loop
InsertAdjustFinishSkip(m) == m

\* the statement after the loop: (*root)->color = RB_BLACK
InsertAdjustFinish(m) == [m EXCEPT !.nd[m.root].color = RB_BLACK]

\* mutant: the fix-up only forces the root BLACK
InsertAdjustRootOnly(m, new_node) == InsertAdjustFinish(m)

RECURSIVE rbTreePrivate_InsertAdjust(_, _)
rbTreePrivate_InsertAdjust(m0, new_node) ==
  IF m0.fault THEN m0
  ELSE
  LET p == m0.nd[new_node].parent
      m == Visit(m0, new_node)
  IN
  IF p # Nil /\ m0.nd[p].color = RB_RED THEN
    LET g == m.nd[p].parent IN
    IF g = Nil THEN Fault(m)
    ELSE IF p = m.nd[g].left THEN
      LET uncle == m.nd[g].right IN
      IF uncle # Nil /\ m.nd[uncle].color = RB_RED THEN
        rbTreePrivate_InsertAdjust(
          [m EXCEPT !.nd[p].color = RB_BLACK, !.nd[uncle].color = RB_BLACK,
                    !.nd[g].color = RB_RED], g)
      ELSE
        LET lr == (new_node = m.nd[p].right)
            n1 == IF lr THEN p ELSE new_node
            m1 == IF lr THEN rbTreePrivate_LeftRotate(m, n1) ELSE m
            m2 == InsertRecolour(m1, n1)
            m3 == IF m2.fault THEN m2
                  ELSE rbTreePrivate_RightRotate(m2, m2.nd[m2.nd[n1].parent].parent)
        IN  rbTreePrivate_InsertAdjust(m3, n1)
    ELSE
      LET uncle == m.nd[g].left IN
      IF uncle # Nil /\ m.nd[uncle].color = RB_RED THEN
        rbTreePrivate_InsertAdjust(
          [m EXCEPT !.nd[p].color = RB_BLACK, !.nd[uncle].color = RB_BLACK,
                    !.nd[g].color = RB_RED], g)
      ELSE
        LET rl == (new_node = m.nd[p].left)
            n1 == IF rl THEN p ELSE new_node
            m1 == IF rl THEN rbTreePrivate_RightRotate(m, n1) ELSE m
            m2 == InsertRecolour(m1, n1)
            m3 == IF m2.fault THEN m2
                  ELSE rbTreePrivate_LeftRotate(m2, m2.nd[m2.nd[n1].parent].parent)
        IN  rbTreePrivate_InsertAdjust(m3, n1)
  ELSE InsertAdjustFinish(m0)


rbTreePrivate_DelRedNodeAndAdjust(m, del_node) ==
  LET p  == m.nd[del_node].parent
      m1 == IF del_node = m.nd[p].left THEN [m EXCEPT !.nd[p].left = Nil]
            ELSE [m EXCEPT !.nd[p].right = Nil]
  IN  rbTreePrivate_FreeNodeMem(m1, del_node)

\* the record of the case the fix-up enters at the sibling uncle, whose RED
\* child (if the case has one) is c
FixAt(m, uncle, case, c) ==
  LET up == m.nd[uncle].parent
      gp == m.nd[up].parent
  IN  [case |-> case, p |-> m.nd[up].index, s |-> m.nd[uncle].index,
       c |-> IF c = Nil THEN 0 ELSE m.nd[c].index,
       g |-> IF gp = Nil THEN 0 ELSE m.nd[gp].index,
       pcolor |-> m.nd[up].color, ascents |-> m.fix.ascents]

\* case 1 of the delete fix-up: the sibling ("uncle") is RED
DelAdjustRedUncle(m, uncle) ==
  LET target == m.nd[uncle].parent
      m1 == [m EXCEPT !.nd[target].color = RB_RED, !.nd[uncle].color = RB_BLACK,
                      !.fix = FixAt(m, uncle, "red", Nil)]
  IN  IF m1.nd[target].left = uncle
        THEN rbTreePrivate_RightRotate(rbTreePrivate_RightRotate(m1, target), target)
        ELSE rbTreePrivate_LeftRotate(rbTreePrivate_LeftRotate(m1, target), target)

\* mutant: the RED child on the sibling's own side keeps its colour
DelAdjustFarChildKeepRed(m, uncle, far) ==
  LET up == m.nd[uncle].parent
      m1 == [m EXCEPT !.nd[uncle].color = m.nd[up].color,
                      !.nd[up].color = RB_BLACK,
                      !.fix = FixAt(m, uncle, "far", far)]
  IN  IF m.nd[up].left = uncle THEN rbTreePrivate_RightRotate(m1, up)
      ELSE rbTreePrivate_LeftRotate(m1, up)

\* case 2, the sibling is BLACK and its child on its own side is RED
DelAdjustFarChild(m, uncle, far) ==
  LET up == m.nd[uncle].parent
      m1 == [m EXCEPT !.nd[far].color = RB_BLACK,
                      !.nd[uncle].color = m.nd[up].color,
                      !.nd[up].color = RB_BLACK,
                      !.fix = FixAt(m, uncle, "far", far)]
  IN  IF m.nd[up].left = uncle THEN rbTreePrivate_RightRotate(m1, up)
      ELSE rbTreePrivate_LeftRotate(m1, up)

\* case 2, the sibling is BLACK and only its child on the other side is RED
DelAdjustNearChild(m, uncle) ==
  LET onLeft == (m.nd[m.nd[uncle].parent].left = uncle)
      near == IF onLeft THEN m.nd[uncle].right ELSE m.nd[uncle].left
      m0 == [m EXCEPT !.fix = FixAt(m, uncle, "near", near)]
      m1 == IF onLeft THEN rbTreePrivate_LeftRotate(m0, uncle)
            ELSE rbTreePrivate_RightRotate(m0, uncle)
      up == m1.nd[uncle].parent
      gp == m1.nd[up].parent
      m2 == [m1 EXCEPT !.nd[up].color = m1.nd[gp].color,
                       !.nd[gp].color = RB_BLACK]
  IN  IF onLeft THEN rbTreePrivate_RightRotate(m2, up)
      ELSE rbTreePrivate_LeftRotate(m2, up)

\* the code from the label READJUST_FLAG to the end of the function
RECURSIVE DelReadjust(_, _)
DelReadjust(m0, uncle) ==
  IF uncle = Nil THEN Fault(m0)
  ELSE IF m0.nd[uncle].color = RB_RED THEN DelAdjustRedUncle(Visit(m0, uncle), uncle)
  ELSE
    LET m  == Visit(m0, uncle)
        up == m.nd[uncle].parent
        l  == m.nd[uncle].left
        r  == m.nd[uncle].right
        lRed == l # Nil /\ m.nd[l].color = RB_RED
        rRed == r # Nil /\ m.nd[r].color = RB_RED
    IN
    IF m.nd[up].left = uncle /\ lRed THEN DelAdjustFarChild(m, uncle, l)
    ELSE IF m.nd[up].left = uncle /\ rRed THEN DelAdjustNearChild(m, uncle)
    ELSE IF m.nd[up].left # uncle /\ rRed THEN DelAdjustFarChild(m, uncle, r)
    ELSE IF m.nd[up].left # uncle /\ lRed THEN DelAdjustNearChild(m, uncle)
    ELSE IF m.nd[up].color = RB_BLACK THEN
      LET m1 == [m EXCEPT !.nd[uncle].color = RB_RED,
                          !.fix = [FixAt(m, uncle, "climb", Nil) EXCEPT
                                     !.ascents = @ + 1]]
          gp == m.nd[up].parent
      IN  IF gp # Nil
            THEN IF up = m1.nd[gp].left THEN DelReadjust(m1, m1.nd[gp].right)
                 ELSE DelReadjust(m1, m1.nd[gp].left)
            ELSE m1
    ELSE [m EXCEPT !.nd[uncle].color = RB_RED, !.nd[up].color = RB_BLACK,
                   !.fix = FixAt(m, uncle, "flip", Nil)]

rbTreePrivate_DelBlackNodeAndAdjust(m, target) ==
  LET p     == m.nd[target].parent
      isL   == (target = m.nd[p].left)
      uncle == IF isL THEN m.nd[p].right ELSE m.nd[p].left
      m1    == IF isL THEN [m EXCEPT !.nd[p].left = Nil]
               ELSE [m EXCEPT !.nd[p].right = Nil]
      m2    == rbTreePrivate_FreeNodeMem(m1, target)
  IN  IF uncle = Nil THEN m2 ELSE DelReadjust(m2, uncle)

rbTreePrivate_DelNoneChildNodeAndAdjust(m, del_node) ==
  IF m.nd[del_node].parent = Nil
    THEN [rbTreePrivate_FreeNodeMem(m, del_node) EXCEPT !.root = Nil]
  ELSE IF m.nd[del_node].color = RB_BLACK
    THEN rbTreePrivate_DelBlackNodeAndAdjust(m, del_node)
  ELSE rbTreePrivate_DelRedNodeAndAdjust(m, del_node)

\* -------------------------------------------------------------- the API
\* mutant: an equal key does not stop the descent
RECURSIVE AddDescendNoDup(_, _, _, _)
AddDescendNoDup(m, fast, slow, index) ==
  IF fast = Nil THEN [dup |-> FALSE, slow |-> slow]
  ELSE LET match_ret == rbTree_MatchRuleHandle(m.nd[fast].index, index) IN
       IF match_ret < 0 THEN AddDescendNoDup(m, m.nd[fast].left, fast, index)
       ELSE AddDescendNoDup(m, m.nd[fast].right, fast, index)

\* the descent of rbTree_AddNode: the parent-to-be, or a duplicate
RECURSIVE AddDescend(_, _, _, _)
AddDescend(m, fast, slow, index) ==
  IF fast = Nil THEN [dup |-> FALSE, slow |-> slow]
  ELSE LET match_ret == rbTree_MatchRuleHandle(m.nd[fast].index, index) IN
       IF match_ret = 0 THEN [dup |-> TRUE, slow |-> fast]
       ELSE IF match_ret < 0 THEN AddDescend(m, m.nd[fast].left, fast, index)
       ELSE AddDescend(m, m.nd[fast].right, fast, index)

rbTree_AddNode(m, index, resource, addr, oom) ==
  IF index = RB_TREE_NULL_PTR
    THEN [m EXCEPT !.errorCode = -RBTREE_ERRNO_ARG_ERR, !.ret = -RBTREE_ERRNO_ARG_ERR]
  ELSE
    LET d == AddDescend(m, m.root, Nil, index) IN
    IF d.dup
      THEN [m EXCEPT !.errorCode = -RBTREE_ERRNO_DUP_VAL, !.ret = -RBTREE_ERRNO_DUP_VAL]
    ELSE IF oom
      THEN [m EXCEPT !.errorCode = -RBTREE_ERRNO_OUT_OF_MEM,
                     !.ret = -RBTREE_ERRNO_OUT_OF_MEM]
    ELSE
      LET slow == d.slow
          m1 == rbTreePrivate_CreateNewNode(m, addr, index, resource)
          m2 == [m1 EXCEPT !.nd[addr].parent = slow]
          m3 == IF slow = Nil THEN [m2 EXCEPT !.root = addr]
                ELSE IF rbTree_MatchRuleHandle(m2.nd[slow].index, m2.nd[addr].index) > 0
                  THEN [m2 EXCEPT !.nd[slow].right = addr]
                  ELSE [m2 EXCEPT !.nd[slow].left = addr]
      IN  [rbTreePrivate_InsertAdjust(m3, addr) EXCEPT !.ret = NO_ERROR]

RECURSIVE MinLeft(_, _)
MinLeft(m, n) == IF m.nd[n].left # Nil THEN MinLeft(m, m.nd[n].left) ELSE n

\* the record of a one-child removal: the keys of the removed node (p), of
\* its only child (c) and of its parent (g, 0: none), and its colour
SpliceAt(m, target, child) ==
  LET p == m.nd[target].parent IN
  [case |-> "splice", p |-> m.nd[target].index, s |-> 0, c |-> m.nd[child].index,
   g |-> IF p = Nil THEN 0 ELSE m.nd[p].index,
   pcolor |-> m.nd[target].color, ascents |-> 0]

\* mutant: the spliced child keeps its colour
DelSpliceKeepColour(m, target, child) ==
  LET p  == m.nd[target].parent
      m1 == [m EXCEPT !.nd[child].parent = p, !.fix = SpliceAt(m, target, child)]
      m2 == IF p = Nil THEN [m1 EXCEPT !.root = child]
            ELSE IF target = m1.nd[p].left THEN [m1 EXCEPT !.nd[p].left = child]
            ELSE IF target = m1.nd[p].right THEN [m1 EXCEPT !.nd[p].right = child]
            ELSE m1
  IN  rbTreePrivate_FreeNodeMem(m2, target)

\* the one-child case of rbTree_DelNode: splice child into target's place
DelSplice(m, target, child) ==
  LET p  == m.nd[target].parent
      m1 == [m EXCEPT !.nd[child].parent = p, !.nd[child].color = RB_BLACK,
                      !.fix = SpliceAt(m, target, child)]
      m2 == IF p = Nil THEN [m1 EXCEPT !.root = child]
            ELSE IF target = m1.nd[p].left THEN [m1 EXCEPT !.nd[p].left = child]
            ELSE IF target = m1.nd[p].right THEN [m1 EXCEPT !.nd[p].right = child]
            ELSE m1
  IN  rbTreePrivate_FreeNodeMem(m2, target)

rbTree_DelNode(m, index) ==
  IF index = RB_TREE_NULL_PTR THEN [m EXCEPT !.errorCode = -RBTREE_ERRNO_ARG_ERR]
  ELSE
    LET found == rbTreePrivate_Search(m, index) IN
    IF found = Nil THEN [m EXCEPT !.errorCode = -RBTREE_ERRNO_NODE_INEXIT]
    ELSE
      LET two    == m.nd[found].left # Nil /\ m.nd[found].right # Nil
          min_right_tree == IF two THEN MinLeft(m, m.nd[found].right) ELSE found
          m1     == IF two THEN rbTreePrivate_ExchangeTwoNode(m, found, min_right_tree)
                    ELSE m
          target == min_right_tree
      IN  IF m1.nd[target].left # Nil THEN DelSplice(m1, target, m1.nd[target].left)
          ELSE IF m1.nd[target].right # Nil THEN DelSplice(m1, target, m1.nd[target].right)
          ELSE rbTreePrivate_DelNoneChildNodeAndAdjust(m1, target)

\* mutant: a miss is recorded in the error code
SearchRecordingMiss(m, index) ==
  IF index = RB_TREE_NULL_PTR
    THEN [m EXCEPT !.errorCode = -RBTREE_ERRNO_ARG_ERR, !.ret = Nil]
  ELSE LET probe == rbTreePrivate_Search(m, index) IN
       IF probe # Nil THEN [m EXCEPT !.ret = m.nd[probe].resource]
       ELSE [m EXCEPT !.errorCode = -RBTREE_ERRNO_NODE_INEXIT, !.ret = Nil]

rbTree_Search(m, index) ==
  IF index = RB_TREE_NULL_PTR
    THEN [m EXCEPT !.errorCode = -RBTREE_ERRNO_ARG_ERR, !.ret = Nil]
  ELSE LET probe == rbTreePrivate_Search(m, index) IN
       [m EXCEPT !.ret = IF probe # Nil THEN m.nd[probe].resource ELSE Nil]

\* the text is printed and the error code is cleared
rbTree_ErrorCodePrint(m) == [m EXCEPT !.errorCode = NO_ERROR, !.ret = 0]

rbTree_IsErrorOccurred(m) ==
  IF m.errorCode # NO_ERROR THEN [m EXCEPT !.ret = m.errorCode]
  ELSE [m EXCEPT !.ret = NO_ERROR]

\* ------------------------------------------------- addresses up to renaming
\* malloc may return any unused address; a state is stored with the nodes
\* renumbered in in-order position, so that two heaps that differ only in the
\* addresses malloc happened to return are one state
RECURSIVE InOrderNodes(_, _)
InOrderNodes(m, n) ==
  IF n = Nil THEN <<>>
  ELSE InOrderNodes(m, m.nd[n].left) \o <<n>> \o InOrderNodes(m, m.nd[n].right)

RECURSIVE SortedSeq(_)
SortedSeq(S) ==
  IF S = {} THEN <<>>
  ELSE LET x == CHOOSE y \in S : \A z \in S : y <= z IN <<x>> \o SortedSeq(S \ {x})

SeqRange(q) == {q[i] : i \in 1..Len(q)}

Normalize(m) ==
  LET io    == InOrderNodes(m, m.root)
      order == io \o SortedSeq(m.alloc \ SeqRange(io))
      new(a) == IF a = Nil THEN Nil ELSE CHOOSE j \in 1..Len(order) : order[j] = a
  IN  [m EXCEPT
        !.root  = new(m.root),
        !.alloc = 1..Len(order),
        !.nd    = [j \in NodeIds |->
                    IF j <= Len(order)
                      THEN [m.nd[order[j]] EXCEPT !.left = new(@), !.right = new(@),
                                                  !.parent = new(@)]
                      ELSE FreeNode]]

\* an address malloc can return
FreshAddr == IF alloc = NodeIds THEN Nil ELSE CHOOSE a \in NodeIds : a \notin alloc

\* --------------------------------------------------------- history variables
RECURSIVE CountIn(_, _)
CountIn(q, v) ==
  IF q = <<>> THEN 0 ELSE (IF Head(q) = v THEN 1 ELSE 0) + CountIn(Tail(q), v)

\* the caller's bookkeeping of the values it handed to the tree: one more for
\* the value of a successful insert, one less for every cleanup call
Account(m, inserted) ==
  IF rbTree_FreeRuleHandle = Nil
    THEN /\ outstanding' = outstanding
         /\ spurious' = spurious
    ELSE LET plus == [v \in Values |->
                       outstanding[v] + (IF v = inserted THEN 1 ELSE 0)]
         IN  /\ outstanding' = [v \in Values |->
                                 IF plus[v] >= CountIn(m.freed, v)
                                   THEN plus[v] - CountIn(m.freed, v) ELSE 0]
             /\ spurious' = (spurious \/ \E v \in Values : plus[v] < CountIn(m.freed, v))

\* the outcome of a call on the memory m: a fault ends the process where it
\* stands, a return publishes the memory
Commit(m, op, inserted, newRef) ==
  IF m.fault
    THEN /\ fault' = TRUE
         /\ call' = [op |-> op, ret |-> 0, exchanged |-> FALSE, fix |-> m.fix]
         /\ UNCHANGED <<manager, managerAllocated, root, node, alloc, errorCode,
                        rbTree_FreeRuleHandle, index_typde_size, rbTree_buffer,
                        cleanupLog, ref, outstanding, spurious>>
    ELSE \E n \in {IF m.nd = node /\ m.root = root THEN m ELSE Normalize(m)} :
         /\ root' = n.root
         /\ node' = n.nd
         /\ alloc' = n.alloc
         /\ errorCode' = n.errorCode
         /\ cleanupLog' = n.freed
         /\ call' = [op |-> op, ret |-> n.ret, exchanged |-> n.exchanged,
                      fix |-> n.fix]
         /\ ref' = newRef
         /\ Account(n, inserted)
         /\ UNCHANGED <<manager, managerAllocated, rbTree_FreeRuleHandle,
                        index_typde_size, rbTree_buffer, fault>>

Live == manager # Nil /\ ~fault

\* ----------------------------------------------------------------- actions
AddNode(index, resource, oom) ==
  /\ Live
  /\ \E m \in {rbTree_AddNode(Mem, index, resource, FreshAddr, oom)} :
       Commit(m, "add",
              IF m.ret = NO_ERROR THEN resource ELSE Nil,
              IF index # RB_TREE_NULL_PTR /\ ~oom /\ ref[index] = Nil
                THEN [ref EXCEPT ![index] = resource] ELSE ref)

DelNode(index) ==
  /\ Live
  /\ \E m \in {rbTree_DelNode(Mem, index)} :
       \* a write past the end of rbTree_buffer is undefined: the call either
       \* goes on as if the bytes had fitted, or it never returns
       \E o \in (IF m.overrun THEN {m, Fault(m)} ELSE {m}) :
         Commit(o, "del", Nil,
                IF index # RB_TREE_NULL_PTR THEN [ref EXCEPT ![index] = Nil] ELSE ref)

Free ==
  /\ Live
  /\ manager' = Nil
  /\ call' = [op |-> "free", ret |-> 0, exchanged |-> FALSE, fix |-> NoFix]
  /\ cleanupLog' = <<>>
  /\ UNCHANGED <<managerAllocated, root, node, alloc, errorCode,
                 rbTree_FreeRuleHandle, index_typde_size, rbTree_buffer, ref,
                 outstanding, spurious, fault>>

Search(index) ==
  /\ Live
  /\ \E m \in {rbTree_Search(Mem, index)} : Commit(m, "search", Nil, ref)

IsErrorOccurred ==
  /\ Live
  /\ \E m \in {rbTree_IsErrorOccurred(Mem)} : Commit(m, "iserror", Nil, ref)

ErrorCodePrint ==
  /\ Live
  /\ \E m \in {rbTree_ErrorCodePrint(Mem)} : Commit(m, "print", Nil, ref)

\* the two size fields rbTree_Create sets for a key width type_size > 0:
\* the buffer is malloc(sizeof(type_size)), the size of the parameter itself
rbTree_Create(type_size) ==
  [index_typde_size |-> type_size, rbTree_buffer |-> SizeofUnsignedInt]

\* the state after a successful rbTree_Create for keys of type_size bytes
Created(type_size) ==
  /\ manager = ManagerAddr
  /\ index_typde_size = rbTree_Create(type_size).index_typde_size
  /\ rbTree_buffer = rbTree_Create(type_size).rbTree_buffer
  /\ managerAllocated = TRUE
  /\ root = Nil
  /\ node = [a \in NodeIds |-> FreeNode]
  /\ alloc = {}
  /\ errorCode = NO_ERROR
  /\ rbTree_FreeRuleHandle \in {Nil, CleanupFn}
  /\ call = [op |-> "create", ret |-> NO_ERROR, exchanged |-> FALSE, fix |-> NoFix]
  /\ cleanupLog = <<>>
  /\ ref = [k \in AllKeys |-> Nil]
  /\ outstanding = [v \in Values |-> 0]
  /\ spurious = FALSE
  /\ fault = FALSE

\* the state after a successful rbTree_Create for int keys
Init == Created(SizeofUnsignedInt)

\* the state after rbTree_Create was given a cleanup callback
InitCleanup == Init /\ rbTree_FreeRuleHandle = CleanupFn

\* any sequence of calls, with null keys and failing allocations; the value
\* passed plays no part in these paths and is fixed
Next ==
  \/ \E index \in Keys \cup {RB_TREE_NULL_PTR}, oom \in BOOLEAN :
       AddNode(index, 1, oom)
  \/ \E index \in Keys \cup {RB_TREE_NULL_PTR} : DelNode(index)
  \/ Free

Spec == Init /\ [][Next]_vars

\* any sequence of inserts and deletes of keys with any values
MapAdd == \E index \in MapKeys, resource \in Values : AddNode(index, resource, FALSE)
MapDel == \E index \in MapKeys : DelNode(index)
NextMap == MapAdd \/ MapDel
SpecMap == InitCleanup /\ [][NextMap]_vars

\* any sequence of inserts and deletes of keys, over a larger key range
ShapeAdd == \E index \in ShapeKeys : AddNode(index, 1, FALSE)
ShapeDel == \E index \in ShapeKeys : DelNode(index)
NextShape == ShapeAdd \/ ShapeDel
SpecShape == InitCleanup /\ [][NextShape]_vars

\* round trips: distinct keys are inserted, then all of them are deleted
RoundTripInsert ==
  /\ call.op \in {"create", "add"}
  /\ \E index \in RoundTripKeys, resource \in Values :
       ref[index] = Nil /\ AddNode(index, resource, FALSE)
RoundTripDelete == \E index \in RoundTripKeys : ref[index] # Nil /\ DelNode(index)
NextRoundTrip == RoundTripInsert \/ RoundTripDelete
SpecRoundTrip == InitCleanup /\ [][NextRoundTrip]_vars

\* any sequence of calls and error queries, with null keys and failing
\* allocations
DiagAdd ==
  \E index \in DiagKeys \cup {RB_TREE_NULL_PTR}, oom \in BOOLEAN : AddNode(index, 1, oom)
DiagDel == \E index \in DiagKeys \cup {RB_TREE_NULL_PTR} : DelNode(index)
DiagSearch == \E index \in DiagKeys \cup {RB_TREE_NULL_PTR} : Search(index)
NextDiag == DiagAdd \/ DiagDel \/ DiagSearch \/ IsErrorOccurred \/ ErrorCodePrint
SpecDiag == InitCleanup /\ [][NextDiag]_vars

\* the worked example: inserts, deletes and searches of the keys 10, 20, 30
ScenarioAdd ==
  \E index \in ScenarioKeys, resource \in Values : AddNode(index, resource, FALSE)
ScenarioDel == \E index \in ScenarioKeys : DelNode(index)
ScenarioSearch == \E index \in ScenarioKeys : Search(index)
NextScenario == ScenarioAdd \/ ScenarioDel \/ ScenarioSearch
SpecScenario == InitCleanup /\ [][NextScenario]_vars

\* inserts only, in any order, of distinct or repeated keys
InsertOnly == \E index \in InsertKeys : AddNode(index, 1, FALSE)
NextInsert == InsertOnly
SpecInsert == InitCleanup /\ [][NextInsert]_vars

\* distinct keys are inserted in any order, then one key is deleted
FixupInsert ==
  /\ call.op \in {"create", "add"}
  /\ \E index \in FixupKeys : ref[index] = Nil /\ AddNode(index, 1, FALSE)
FixupDelete ==
  /\ call.op = "add"
  /\ \E index \in FixupKeys : ref[index] # Nil /\ DelNode(index)
NextFixup == FixupInsert \/ FixupDelete
SpecFixup == InitCleanup /\ [][NextFixup]_vars

\* trees whose keys are of any width from 1 to MaxKeyWidth bytes
InitWidth ==
  \E type_size \in KeyWidths : Created(type_size) /\ rbTree_FreeRuleHandle = CleanupFn
WidthAdd == \E index \in WidthKeys : AddNode(index, 1, FALSE)
WidthDel == \E index \in WidthKeys : DelNode(index)
NextWidth == WidthAdd \/ WidthDel
SpecWidth == InitWidth /\ [][NextWidth]_vars

\* ================================================================ properties
\* observations of a tree given by its root and its heap
RECURSIVE BlackHeight(_, _)
BlackHeight(nd, n) ==   \* -1 when two paths below n differ in their BLACK count
  IF n = Nil THEN 1
  ELSE LET l == BlackHeight(nd, nd[n].left)
           r == BlackHeight(nd, nd[n].right)
       IN  IF l = -1 \/ r = -1 \/ l # r THEN -1
           ELSE l + (IF nd[n].color = RB_BLACK THEN 1 ELSE 0)

RECURSIVE InOrderKeys(_, _)
InOrderKeys(nd, n) ==
  IF n = Nil THEN <<>>
  ELSE InOrderKeys(nd, nd[n].left) \o <<nd[n].index>> \o InOrderKeys(nd, nd[n].right)

IsRed(nd, n) == n # Nil /\ nd[n].color = RB_RED

RedRed(nd, al) == \E n \in al : IsRed(nd, n) /\ (IsRed(nd, nd[n].left) \/ IsRed(nd, nd[n].right))

SearchValue(rt, nd, k) == rbTree_Search([Mem EXCEPT !.root = rt, !.nd = nd], k).ret

Without(q, k) == SelectSeq(q, LAMBDA x : x # k)

Returned == call.op \in {"add", "del"} /\ ~fault

\* the three red-black invariants on the tree below rt
RBValid(rt, nd, al) ==
  /\ rt = Nil \/ (nd[rt].color = RB_BLACK /\ nd[rt].parent = Nil)
  /\ ~RedRed(nd, al)
  /\ BlackHeight(nd, rt) # -1

\* the node of the heap nd that holds key k, Nil when there is none
NodeOf(nd, al, k) ==
  IF \E n \in al : nd[n].index = k THEN CHOOSE n \in al : nd[n].index = k ELSE Nil

\* the key of node n, 0 for the null pointer
KeyOf(nd, n) == IF n = Nil THEN 0 ELSE nd[n].index

\* in the heap nd the node with key top hangs where the fix-up record f found
\* P (below P's former parent, or at the root), has P's former colour, and
\* its two children are the nodes with keys a and b, both BLACK
Promoted(rt, nd, al, f, top, a, b) ==
  LET t == NodeOf(nd, al, top) IN
  /\ t # Nil
  /\ KeyOf(nd, nd[t].parent) = f.g
  /\ (f.g = 0) => rt = t
  /\ nd[t].color = f.pcolor
  /\ nd[t].left # Nil /\ nd[t].right # Nil
  /\ {nd[nd[t].left].index, nd[nd[t].right].index} = {a, b}
  /\ nd[nd[t].left].color = RB_BLACK /\ nd[nd[t].right].color = RB_BLACK

\* C1: after every insert and delete that returns, all paths from the root
\* (and from any node) to a nil position pass the same number of BLACK nodes.
C1_BlackHeight == Returned => BlackHeight(node, root) # -1

\* C2: after every insert and delete that returns, no RED node has a RED child.
C2_NoRedRed == Returned => ~RedRed(node, alloc)

\* C3: after every insert and delete the tree is empty or its root is BLACK
\* and has no parent.
C3_RootBlack ==
  root = Nil \/ (node[root].color = RB_BLACK /\ node[root].parent = Nil)

C3_Witness ==
  /\ call.op = "del" /\ ~fault /\ cleanupLog # <<>>
  /\ root # Nil /\ node[root].left # Nil /\ node[root].right # Nil

\* C4: the tree refines the reference map: a search for k returns the value of
\* the latest successful insert of k not deleted since, the null pointer
\* otherwise, and no two nodes hold keys the comparator reports equal.
C4_MapRefinement ==
  /\ \A k \in AllKeys : SearchValue(root, node, k) = ref[k]
  /\ \A a, b \in alloc :
       a # b => rbTree_MatchRuleHandle(node[a].index, node[b].index) # 0

C4_Witness ==
  /\ call.op = "del" /\ ~fault /\ cleanupLog # <<>>
  /\ \E k \in MapKeys : ref[k] = Nil /\ SearchValue(root, node, k) = Nil
  /\ \E k \in MapKeys : ref[k] = 2 /\ SearchValue(root, node, k) = 2
  /\ \E k \in MapKeys : ref[k] = 1 /\ SearchValue(root, node, k) = 1

\* C5: the in-order traversal lists the keys in strictly increasing order:
\* compare(a, b) < 0 for consecutive keys a then b.
C5_InOrderIncreasing ==
  LET q == InOrderKeys(node, root) IN
  \A i \in 1..(Len(q) - 1) : rbTree_MatchRuleHandle(q[i], q[i + 1]) < 0

\* C6: an insert of a key equal to a key in the tree returns the duplicate
\* error and changes neither nodes, links, colours, keys nor values, and
\* calls no cleanup.
C6_DuplicateInsertNoOp ==
  Live =>
    \A n \in alloc, resource \in Values, oom \in BOOLEAN :
      LET m == rbTree_AddNode(Mem, node[n].index, resource, FreshAddr, oom) IN
      /\ ~m.fault
      /\ m.ret = -RBTREE_ERRNO_DUP_VAL
      /\ m.root = root /\ m.nd = node /\ m.alloc = alloc
      /\ m.freed = <<>>

C6_Witness ==
  /\ call.op = "add" /\ call.ret = -RBTREE_ERRNO_DUP_VAL
  /\ Cardinality(alloc) >= 3
  /\ \E n \in alloc : node[n].resource = 1
  /\ \E n \in alloc : node[n].resource = 2

\* C7: inserting N distinct keys and then deleting all N, in any orders,
\* leaves the root nil with every node released, and has called cleanup once
\* for each inserted value; every call of the round trip returns.
C7_RoundTripEmpty ==
  /\ ~fault
  /\ (call.op = "del" /\ \A k \in AllKeys : ref[k] = Nil) =>
       /\ root = Nil /\ alloc = {}
       /\ ~spurious /\ \A v \in Values : outstanding[v] = 0

\* C8: a delete of a key in the tree calls cleanup once, with the value
\* inserted under that key, removes one node, and leaves every other key in
\* place with its own value and in the same relative order.
C8_DeleteStep(k) ==
  (call'.op = "del" /\ ~fault' /\ ref[k] # Nil /\ ref'[k] = Nil) =>
    /\ cleanupLog' = <<ref[k]>>
    /\ Cardinality(alloc') = Cardinality(alloc) - 1
    /\ \A j \in AllKeys \ {k} : SearchValue(root', node', j) = SearchValue(root, node, j)
    /\ InOrderKeys(node', root') = Without(InOrderKeys(node, root), k)

C8_DeleteExact == [][\A k \in AllKeys : C8_DeleteStep(k)]_vars

C8_Witness ==
  /\ call.op = "del" /\ ~fault /\ call.exchanged
  /\ rbTree_FreeRuleHandle # Nil /\ cleanupLog = <<2>>
  /\ alloc # {} /\ \A n \in alloc : node[n].resource = 1

\* C9: a delete of an absent or null key, and an insert with a null key or a
\* failing allocation, change neither nodes, links, colours, keys nor values
\* and call no cleanup; only the error code changes.
C9_FailedStep ==
  LET failedDel == call'.op = "del" /\ ~fault' /\ ref' = ref
      failedAdd == call'.op = "add" /\ ~fault' /\
                   call'.ret \in {-RBTREE_ERRNO_ARG_ERR, -RBTREE_ERRNO_OUT_OF_MEM}
  IN  (failedDel \/ failedAdd) =>
        /\ root' = root /\ node' = node /\ alloc' = alloc
        /\ cleanupLog' = <<>>
        /\ errorCode' # NO_ERROR
        /\ failedAdd => errorCode' = call'.ret
        /\ failedDel => errorCode' \in {-RBTREE_ERRNO_ARG_ERR, -RBTREE_ERRNO_NODE_INEXIT}

C9_FailedNoMutation == [][C9_FailedStep]_vars

C9_Witness ==
  /\ call.op = "del" /\ ~fault /\ errorCode = -RBTREE_ERRNO_NODE_INEXIT
  /\ cleanupLog = <<>> /\ Cardinality(alloc) >= 3

\* C10: after rbTree_Free every node and the manager are released, and
\* cleanup was called once for each node that was in the tree.
C10_FreeReleasesAll ==
  call.op = "free" =>
    /\ alloc = {}
    /\ ~managerAllocated
    /\ (rbTree_FreeRuleHandle # Nil =>
          \A v \in Values : CountIn(cleanupLog, v) = outstanding[v])

\* C11: right after rbTree_DelNode returns, rbTree_IsErrorOccurred returns 0
\* exactly when that delete removed its key, and a negative code exactly when
\* it failed, whatever the earlier calls did.
C11_DeleteThenQuery ==
  (call.op = "del" /\ call'.op = "iserror" /\ ~fault') =>
    /\ (call'.ret = NO_ERROR) <=> (cleanupLog # <<>>)
    /\ (call'.ret < 0) <=> (cleanupLog = <<>>)

C11_DeleteObservable == [][C11_DeleteThenQuery]_vars

\* C12: with the caller's key as first argument and the node's key as second,
\* a negative comparison sends the descent (and the link of a new node) to the
\* LEFT and a positive one to the RIGHT: every left child compares negative
\* with its parent, every right child positive, and a search whose comparison
\* at the root is negative goes on in the root's left subtree, a positive one
\* in its right subtree.
C12_ComparatorConvention ==
  /\ \A n \in alloc :
       /\ node[n].left # Nil =>
            rbTree_MatchRuleHandle(node[node[n].left].index, node[n].index) < 0
       /\ node[n].right # Nil =>
            rbTree_MatchRuleHandle(node[node[n].right].index, node[n].index) > 0
  /\ root # Nil =>
       \A k \in ShapeKeys :
         /\ rbTree_MatchRuleHandle(k, node[root].index) < 0 =>
              rbTreePrivate_Search(Mem, k) = SearchFrom(Mem, node[root].left, k)
         /\ rbTree_MatchRuleHandle(k, node[root].index) > 0 =>
              rbTreePrivate_Search(Mem, k) = SearchFrom(Mem, node[root].right, k)

\* C13: with the integer comparator, once 10, 20 and 30 have been inserted
\* into an empty tree the root is 20, BLACK, and 10 and 30 are its two RED
\* children; deleting 20 then leaves exactly the keys 10 and 30 in a tree that
\* keeps the root-black, no-red-red and equal-black-height invariants, where a
\* search for 20 misses and searches for 10 and 30 find their values.
C13_AfterThreeInserts ==
  (call'.op = "add" /\ ~fault' /\ \A k \in ScenarioKeys : ref'[k] # Nil) =>
    /\ root' # Nil
    /\ node'[root'].index = 20 /\ node'[root'].color = RB_BLACK
    /\ node'[root'].left # Nil /\ node'[root'].right # Nil
    /\ {node'[node'[root'].left].index, node'[node'[root'].right].index} = {10, 30}
    /\ node'[node'[root'].left].color = RB_RED
    /\ node'[node'[root'].right].color = RB_RED
    /\ alloc' = {root', node'[root'].left, node'[root'].right}

C13_AfterDelete20 ==
  (call'.op = "del" /\ ~fault' /\ (\A k \in ScenarioKeys : ref[k] # Nil)
     /\ ref'[20] = Nil) =>
    /\ SeqRange(InOrderKeys(node', root')) = {10, 30}
    /\ Cardinality(alloc') = 2
    /\ RBValid(root', node', alloc')
    /\ SearchValue(root', node', 20) = Nil
    /\ SearchValue(root', node', 10) = ref[10]
    /\ SearchValue(root', node', 30) = ref[30]

C13_Scenario == [][C13_AfterThreeInserts /\ C13_AfterDelete20]_vars

C13_Witness ==
  /\ call.op = "del" /\ ~fault /\ call.exchanged /\ cleanupLog # <<>>
  /\ ref[20] = Nil /\ ref[10] = 1 /\ ref[30] = 2
  /\ SearchValue(root, node, 10) = 1 /\ SearchValue(root, node, 30) = 2

\* C14: reading the last-error code, through rbTree_IsErrorOccurred or through
\* rbTree_ErrorCodePrint, resets it: after either read the code is NO_ERROR,
\* and a read that directly follows a read reports no error.
C14_ReadStep ==
  /\ (call'.op \in {"iserror", "print"} /\ ~fault') => errorCode' = NO_ERROR
  /\ (call.op \in {"iserror", "print"} /\ call'.op = "iserror" /\ ~fault') =>
       call'.ret = NO_ERROR

C14_ClearedOnRead == [][C14_ReadStep]_vars

\* C15: rbTree_Search of a non-null key that is not in the tree returns the
\* null pointer and sets the last-error code to the node-not-found code, so
\* that rbTree_IsErrorOccurred called next returns a non-zero code.
C15_SearchMissRecorded ==
  Live =>
    \A k \in DiagKeys :
      ref[k] = Nil =>
        LET m == rbTree_Search(Mem, k) IN
        /\ ~m.fault
        /\ m.ret = Nil
        /\ m.errorCode = -RBTREE_ERRNO_NODE_INEXIT
        /\ rbTree_IsErrorOccurred(m).ret # NO_ERROR

\* C16: rbTree_Search with a non-null key, hit or miss, changes neither the
\* root pointer, nor any node's links, colour, key or value, nor the
\* last-error code, and calls no cleanup; the last-error code changes only
\* when the key is the null pointer.
C16_SearchCall ==
  Live =>
    /\ \A k \in DiagKeys :
         LET m == rbTree_Search(Mem, k) IN
         /\ ~m.fault
         /\ m.root = root /\ m.nd = node /\ m.alloc = alloc
         /\ m.errorCode = errorCode
         /\ m.freed = <<>>
    /\ LET m == rbTree_Search(Mem, RB_TREE_NULL_PTR) IN
       /\ ~m.fault
       /\ m.root = root /\ m.nd = node /\ m.alloc = alloc
       /\ m.freed = <<>>

C16_SearchStep ==
  call'.op = "search" =>
    /\ ~fault'
    /\ root' = root /\ node' = node /\ alloc' = alloc
    /\ cleanupLog' = <<>> /\ outstanding' = outstanding /\ ref' = ref
    /\ errorCode' # errorCode =>
         (errorCode' = -RBTREE_ERRNO_ARG_ERR /\ call'.ret = Nil)
    /\ call'.ret # Nil => errorCode' = errorCode

C17_InsertFixup ==
  /\ ~fault
  /\ call.op = "add" => RBValid(root, node, alloc)

C17_Witness ==
  /\ call.op = "add" /\ call.ret = NO_ERROR /\ ~fault
  /\ Cardinality(alloc) >= 7
  /\ \E n \in alloc : node[n].color = RB_RED /\ node[n].left # Nil /\ node[n].right # Nil
  /\ BlackHeight(node, root) = 3

\* C18: a delete from a tree that satisfies the red-black invariants, whose
\* fix-up reaches a BLACK sibling S of parent P with its far-side child not
\* RED and its near-side child N RED, returns with N in P's former position
\* with P's former colour, S and P as N's two BLACK children, and the tree
\* again root-black, free of red-red and of equal black height.
C18_NearStep ==
  (RBValid(root, node, alloc) /\ call'.op = "del" /\ call'.fix.case = "near") =>
    /\ ~fault'
    /\ Promoted(root', node', alloc', call'.fix, call'.fix.c, call'.fix.s, call'.fix.p)
    /\ RBValid(root', node', alloc')

C18_NearSide == [][C18_NearStep]_vars

\* C19: a delete from a tree that satisfies the red-black invariants, whose
\* fix-up finds the sibling S RED (at the level of the deleted leaf or after
\* climbing), returns from that case with the tree root-black, free of
\* red-red and of equal black height, whatever the colours of the children of
\* S's inner child.
C19_RedStep ==
  (RBValid(root, node, alloc) /\ call'.op = "del" /\ call'.fix.case = "red") =>
    /\ ~fault'
    /\ RBValid(root', node', alloc')

C19_RedSibling == [][C19_RedStep]_vars

\* C20: a delete from a tree that satisfies the red-black invariants, whose
\* fix-up finds a BLACK sibling S of parent P with its far-side child F RED
\* (at the level of the deleted leaf or after climbing), returns from that
\* case with S in P's former position with P's former colour, P and F as the
\* BLACK children of S, and the tree root-black, free of red-red and of equal
\* black height.
C20_FarStep ==
  (RBValid(root, node, alloc) /\ call'.op = "del" /\ call'.fix.case = "far") =>
    /\ ~fault'
    /\ Promoted(root', node', alloc', call'.fix, call'.fix.s, call'.fix.p, call'.fix.c)
    /\ RBValid(root', node', alloc')

C20_FarSide == [][C20_FarStep]_vars

C20_Witness ==
  /\ call.op = "del" /\ ~fault /\ call.fix.case = "far" /\ call.fix.ascents > 0
  /\ Promoted(root, node, alloc, call.fix, call.fix.s, call.fix.p, call.fix.c)
  /\ RBValid(root, node, alloc)

\* C21: a delete from a tree that satisfies the red-black invariants, whose
\* physically removed node (the target, or its successor after the payload
\* swap) has exactly one child, puts that child in the removed node's place
\* (at the root when the removed node was the root), BLACK, and returns with
\* the tree root-black, free of red-red and of equal black height; no delete
\* fix-up runs.
C21_SpliceStep ==
  (RBValid(root, node, alloc) /\ call'.op = "del" /\ call'.fix.case = "splice") =>
    LET f == call'.fix
        c == NodeOf(node', alloc', f.c)
    IN  /\ ~fault'
        /\ NodeOf(node', alloc', f.p) = Nil
        /\ Cardinality(alloc') = Cardinality(alloc) - 1
        /\ c # Nil
        /\ KeyOf(node', node'[c].parent) = f.g
        /\ (f.g = 0) => root' = c
        /\ node'[c].color = RB_BLACK
        /\ f.ascents = 0
        /\ RBValid(root', node', alloc')

C21_OneChildSplice == [][C21_SpliceStep]_vars

C21_Witness ==
  /\ call.op = "del" /\ ~fault /\ call.fix.case = "splice" /\ call.exchanged
  /\ call.fix.g # 0
  /\ Cardinality(alloc) >= 4
  /\ RBValid(root, node, alloc)

\* C23: in every state left by an insert or a delete (rotations and splices
\* included) the links agree: a non-nil left or right child of n has parent n,
\* the root has a nil parent and is the only node with a nil parent, every
\* allocated node is reached from the root exactly once, and no freed node is
\* linked.
C23_LinkConsistency ==
  LET io == InOrderNodes(Mem, root) IN
  /\ \A n \in alloc :
       /\ node[n].left # Nil => (node[n].left \in alloc /\ node[node[n].left].parent = n)
       /\ node[n].right # Nil => (node[n].right \in alloc /\ node[node[n].right].parent = n)
       /\ node[n].left # Nil => node[n].left # node[n].right
       /\ node[n].parent = Nil => n = root
       /\ node[n].parent # Nil =>
            (node[n].parent \in alloc /\
             n \in {node[node[n].parent].left, node[node[n].parent].right})
  /\ root # Nil => (root \in alloc /\ node[root].parent = Nil)
  /\ root = Nil => alloc = {}
  /\ Len(io) = Cardinality(alloc)
  /\ SeqRange(io) = alloc
  /\ \A a \in NodeIds \ alloc : node[a] = FreeNode

C23_Witness ==
  /\ call.op = "del" /\ ~fault /\ call.fix.case = "red"
  /\ Cardinality(alloc) >= 5
  /\ \E n \in alloc : node[n].parent # Nil /\ node[n].left # Nil /\ node[n].right # Nil

\* C24: no sequence of rbTree_AddNode and rbTree_DelNode calls with valid
\* arguments reads a field of a nil node: rotations are only applied to
\* pivots that have the child they lift, the sibling re-seeded on a delete
\* fix-up ascent is non-nil, and a RED parent in the insert fix-up has a
\* grandparent.
C24_NoNilDereference == fault = FALSE

\* the depths in q go down by exactly d from one pass to the next
StepsDown(q, d) == \A i \in 1..(Len(q) - 1) : q[i + 1] = q[i] - d

\* C22: every rbTree_AddNode and rbTree_DelNode call on a reachable tree
\* returns; each pass of the delete fix-up that does not end it examines a
\* sibling exactly one level closer to the root than the pass before, and a
\* fix-up that ends by climbing ends with the root as parent; each pass of the
\* insert fix-up that does not end the loop moves the examined node two levels
\* up.
C22_FixupTerminates ==
  Live =>
    \A k \in ShapeKeys :
      LET d == rbTree_DelNode(Mem, k)
          a == rbTree_AddNode(Mem, k, 1, FreshAddr, FALSE)
      IN  /\ ~d.fault
          /\ StepsDown(d.trail, 1)
          /\ Len(d.trail) <= Cardinality(alloc)
          /\ d.fix.case = "climb" => d.fix.g = 0
          /\ ~a.fault
          /\ StepsDown(a.trail, 2)
          /\ Len(a.trail) <= Cardinality(alloc)

\* C25: whenever a delete has exchanged the contents of two nodes, the key
\* that went through the manager's temporary buffer fitted into it: the
\* buffer holds at least as many bytes as the key width given to rbTree_Create.
C25_SwapBufferFits == call.exchanged => index_typde_size <= rbTree_buffer

====
